---- MODULE Spec2Model ----
(***************************************************************************)
(* check_oozie_workflows.py: a Nagios check that asks an Oozie server for  *)
(* the running coordinators, fetches the recent workflows of each, and     *)
(* exits with the worst Nagios state found.                                *)
(*                                                                         *)
(* Python values:  str -> TLA+ string (a string that the program parses or *)
(* splits is a sequence of one-character strings), None -> None where a    *)
(* string is expected and NoList where a list is expected, dict -> a       *)
(* function on its keys, list -> List(sequence), float -> an IEEE-754      *)
(* double [sign, bits, exp] with a 53-bit significand.                     *)
(***************************************************************************)
EXTENDS Integers, Sequences, FiniteSets, TLC

VARIABLES
    env,        \* which answers the Oozie server may give in this run
    args,       \* argparse's result
    oozie,      \* the Oozie object: host, port
    heap,       \* the dict objects of the filter builder, by reference
    filter,     \* main's filter (a reference into heap)
    fd,         \* coordinator()'s fd (a reference into heap)
    cc,         \* the coordinator dicts (a List, or NoList)
    i,          \* position of the loop over cc
    j,          \* position of the loop over workflows
    exitCode,   \* main's exitCode
    wfStatus,   \* the report loop's wfStatus
    nag,        \* the report loop's nag
    pc,         \* where the program is
    raised,     \* the exception being propagated
    problem,    \* the exception the handler caught
    exitStatus, \* the exit codes the process ended with: none, then one
    stdout,     \* the lines printed
    requests,   \* the HTTP requests issued, with what came of each
    calls       \* the library calls made by a test driver, with their results

vars == <<env, args, oozie, heap, filter, fd, cc, i, j, exitCode, wfStatus, nag,
          pc, raised, problem, exitStatus, stdout, requests, calls>>

-----------------------------------------------------------------------------
(* Bounds of the model *)

MaxCoords == 2      \* coordinators in one answer of the server
MaxWfs == 2         \* workflows in one answer of the server (SpecReport)
MaxCalls == 2       \* library calls made by a test driver

-----------------------------------------------------------------------------
(* Python values *)

None == "<None>"
NoList == [none |-> TRUE]
List(s) == [items |-> s]
IsList(v) == "items" \in DOMAIN v

EmptyDict == [k \in {} |-> None]

\* dict.get(key, default)
DictGet(d, key, default) == IF key \in DOMAIN d THEN d[key] ELSE default

\* dict.update(**kwargs), as a value
DictUpdate(d, kwargs) ==
    [k \in DOMAIN d \cup DOMAIN kwargs |-> IF k \in DOMAIN kwargs THEN kwargs[k] ELSE d[k]]

\* what a call yields when it raises: the exception's class and its message
Raise(type, message) == [raises |-> type, message |-> message]

\* the truth value of an optional string
Truthy(v) == v # None /\ v # ""

RECURSIVE Str(_)
Str(chars) == IF chars = <<>> THEN "" ELSE Head(chars) \o Str(Tail(chars))

-----------------------------------------------------------------------------
(* NagiosState and OozieStatus *)

Ok == 0
Warn == 1
Error == 2
Unknown == 3

NagiosState == {Ok, Warn, Error, Unknown}

NagiosName(s) ==
    CASE s = Ok -> "Ok" [] s = Warn -> "Warn" [] s = Error -> "Error" [] s = Unknown -> "Unknown"

OozieStatus == {"FAILED", "KILLED", "SUSPENDED", "SUCCEEDED", "RUNNING", "PREP"}

ToNagios(member) ==
    IF member = "FAILED" THEN Error
    ELSE IF member = "KILLED" THEN Warn
    ELSE IF member = "SUSPENDED" THEN Warn
    ELSE Ok

\* faulty variant of oozie_status_to_nagios: no fallback, a value that is no
\* member's value is taken for a healthy one
StatusToNagiosNoFallback(oozie_status) == ToNagios(oozie_status)

\* OozieStatus(value) raises ValueError for a value that is no member's value;
\* the bare except turns every exception into Unknown
oozie_status_to_nagios(oozie_status) ==
    IF oozie_status \in OozieStatus THEN ToNagios(oozie_status) ELSE Unknown

\* faulty variant of max: the later value wins
LaterOf(a, b) == b

\* max(a, b)
Max2(a, b) == IF b > a THEN b ELSE a

RECURSIVE MaxOf(_)
MaxOf(s) == IF Len(s) = 1 THEN s[1] ELSE Max2(MaxOf(SubSeq(s, 1, Len(s) - 1)), s[Len(s)])

-----------------------------------------------------------------------------
(* float: IEEE-754 binary64, round to nearest, ties to even.               *)
(* A nonzero double is sign * bits * 2^exp, bits a 53-bit string (most     *)
(* significant bit first, leading 1); zero has no bits.                    *)

MantBits == 53

\* Bit strings are worked on eight bits at a time, as strings of bytes.
LimbBits == 8
LimbBase == 256

Pow2 == <<1, 2, 4, 8, 16, 32, 64, 128>>

Zeros(n) == [k \in 1..n |-> 0]

\* the bits of a byte, and the byte of eight bits
ByteBits(v) == [k \in 1..LimbBits |-> (v \div Pow2[LimbBits + 1 - k]) % 2]
ByteValue(b) ==
    b[1] * 128 + b[2] * 64 + b[3] * 32 + b[4] * 16 + b[5] * 8 + b[6] * 4 + b[7] * 2 + b[8]

\* a bit string, zeros put in front to fill whole bytes, as bytes; and back
ToLimbs(b) ==
    LET n      == (Len(b) + LimbBits - 1) \div LimbBits
        padded == Zeros(n * LimbBits - Len(b)) \o b
    IN  [m \in 1..n |-> ByteValue(SubSeq(padded, LimbBits * (m - 1) + 1, LimbBits * m))]

FromLimbs(limbs) ==
    [k \in 1..(LimbBits * Len(limbs)) |->
        ByteBits(limbs[((k - 1) \div LimbBits) + 1])[((k - 1) % LimbBits) + 1]]

Ones(b) == {k \in 1..Len(b) : b[k] = 1}

First(S) == CHOOSE k \in S : \A m \in S : k <= m
Last(S) == CHOOSE k \in S : \A m \in S : k >= m

StripLeading(b) == IF Ones(b) = {} THEN <<>> ELSE SubSeq(b, First(Ones(b)), Len(b))

StripTrailing(b) == IF Ones(b) = {} THEN <<>> ELSE SubSeq(b, 1, Last(Ones(b)))

RECURSIVE LimbsToInt(_)
LimbsToInt(limbs) ==
    IF limbs = <<>> THEN 0
    ELSE LimbBase * LimbsToInt(SubSeq(limbs, 1, Len(limbs) - 1)) + limbs[Len(limbs)]

RECURSIVE IntToLimbs(_)
IntToLimbs(n) ==
    IF n = 0 THEN <<>> ELSE Append(IntToLimbs(n \div LimbBase), n % LimbBase)

\* a bit string of at most 31 bits as an int, and an int >= 0 as a bit string
BitsToInt(b) == LimbsToInt(ToLimbs(b))
IntToBits(n) == StripLeading(FromLimbs(IntToLimbs(n)))

\* the bit string plus one
Increment(b) ==
    LET zeros == {k \in 1..Len(b) : b[k] = 0}
    IN  IF zeros = {} THEN <<1>> \o Zeros(Len(b))
        ELSE SubSeq(b, 1, Last(zeros) - 1) \o <<1>> \o Zeros(Len(b) - Last(zeros))

FloatZero == [sign |-> 1, bits |-> <<>>, exp |-> 0]

\* the double nearest to sign * (bits + a nonzero fraction if sticky) * 2^exp
RoundNearestEven(sign, bits0, exp, sticky) ==
    LET bits == StripLeading(bits0)
        n    == Len(bits)
    IN  IF n = 0 THEN FloatZero
        ELSE IF n <= MantBits
        THEN [sign |-> sign, bits |-> bits \o Zeros(MantBits - n),
              exp |-> exp - (MantBits - n)]
        ELSE LET keep  == SubSeq(bits, 1, MantBits)
                 guard == bits[MantBits + 1]
                 rest  == sticky \/ \E k \in (MantBits + 2)..n : bits[k] = 1
                 up    == guard = 1 /\ (rest \/ keep[MantBits] = 1)
                 inc   == IF up THEN Increment(keep) ELSE keep
             IN  IF Len(inc) > MantBits
                 THEN [sign |-> sign, bits |-> SubSeq(inc, 1, MantBits),
                       exp |-> exp + (n - MantBits) + 1]
                 ELSE [sign |-> sign, bits |-> inc, exp |-> exp + (n - MantBits)]

\* float(n) of an int
FloatFromInt(n) ==
    IF n = 0 THEN FloatZero
    ELSE RoundNearestEven(IF n < 0 THEN -1 ELSE 1, IntToBits(IF n < 0 THEN -n ELSE n),
                          0, FALSE)

\* long division of bytes by a positive integer, from the most significant byte:
\* <<quotient, remainder>>
RECURSIVE LongDivLimbs(_, _)
LongDivLimbs(limbs, d) ==
    IF limbs = <<>> THEN <<<<>>, 0>>
    ELSE LET before == LongDivLimbs(SubSeq(limbs, 1, Len(limbs) - 1), d)
             r      == LimbBase * before[2] + limbs[Len(limbs)]
         IN  <<Append(before[1], r \div d), r % d>>

LongDiv(bits, d) ==
    LET qr == LongDivLimbs(ToLimbs(bits), d)
    IN  <<FromLimbs(qr[1]), qr[2]>>

\* bytes times a positive integer, from the least significant byte:
\* <<product without the last carry, carry>>
RECURSIVE MulLimbs(_, _)
MulLimbs(limbs, m) ==
    IF limbs = <<>> THEN <<<<>>, 0>>
    ELSE LET after == MulLimbs(Tail(limbs), m)
             v     == Head(limbs) * m + after[2]
         IN  <<(<<v % LimbBase>>) \o after[1], v \div LimbBase>>

MulSmall(bits, m) ==
    LET pr == MulLimbs(ToLimbs(bits), m)
    IN  FromLimbs(IntToLimbs(pr[2]) \o pr[1])

\* x / y for a nonzero y whose significand is a small integer (y = float(int))
FloatDiv(x, y) ==
    IF x.bits = <<>> THEN FloatZero
    ELSE LET ys    == StripTrailing(y.bits)
             d     == BitsToInt(ys)
             yexp  == y.exp + (MantBits - Len(ys))
             extra == Len(ys) + 2
             qr    == LongDiv(x.bits \o Zeros(extra), d)
         IN  RoundNearestEven(x.sign * y.sign, qr[1], x.exp - extra - yexp, qr[2] # 0)

\* x * y for an x whose significand is a small integer (x = float(int))
FloatMul(x, y) ==
    IF x.bits = <<>> \/ y.bits = <<>> THEN FloatZero
    ELSE LET xs   == StripTrailing(x.bits)
             m    == BitsToInt(xs)
             xexp == x.exp + (MantBits - Len(xs))
         IN  RoundNearestEven(x.sign * y.sign, MulSmall(y.bits, m),
                              xexp + y.exp, FALSE)

\* int(x): the integer part, toward zero
FloatToInt(x) ==
    IF x.bits = <<>> THEN 0
    ELSE IF x.exp >= 0 THEN x.sign * BitsToInt(x.bits \o Zeros(x.exp))
    ELSE IF -x.exp >= MantBits THEN 0
    ELSE x.sign * BitsToInt(SubSeq(x.bits, 1, MantBits + x.exp))

Digits == <<"0", "1", "2", "3", "4", "5", "6", "7", "8", "9">>

DigitValue(ch) == (CHOOSE k \in 1..10 : Digits[k] = ch) - 1

RECURSIVE DecimalValue(_)
DecimalValue(chars) ==
    IF chars = <<>> THEN 0
    ELSE 10 * DecimalValue(SubSeq(chars, 1, Len(chars) - 1)) + DigitValue(chars[Len(chars)])

IsDecimal(chars) ==
    /\ chars # <<>>
    /\ \A k \in 1..Len(chars) : \E d \in 1..10 : Digits[d] = chars[k]

\* float(s) of a string: the strings of decimal digits are the numeric strings
\* of the model, every other string raises ValueError
ParseFloat(s) ==
    IF ~IsDecimal(s) THEN Raise("ValueError", "could not convert string to float")
    ELSE [raises |-> None, value |-> FloatFromInt(DecimalValue(s))]

-----------------------------------------------------------------------------
(* class Oozie *)

DefaultPort == 11000
DefaultLen == 100
DefaultOffset == 1

\* Oozie.__init__
OozieNew(host, port) == [host |-> host, port |-> port]

\* Oozie._url
Url(self) == [host |-> self.host, port |-> self.port, path |-> "/oozie/v1/"]

JobTypes == {"wf", "coordinator", "bundle"}

\* faulty variant of _checkJobtype: every jobtype passes
CheckJobtypeAny(jobtype) == [raises |-> None, value |-> jobtype]

\* Oozie._checkJobtype
CheckJobtype(jobtype) ==
    IF jobtype \in JobTypes
    THEN [raises |-> None, value |-> jobtype]
    ELSE Raise("Exception", "unknown jobtype")

\* Oozie._encodeFilter: the "k=v" pairs that are joined by ";" (in the dict's order,
\* which the set leaves open)
EncodeFilter(filterDict) == {k \o "=" \o filterDict[k] : k \in DOMAIN filterDict}

\* Oozie._apply up to urlopen: the request that goes out
Apply(self, path, params) ==
    LET base_url == Url(self)
    IN  [host |-> base_url.host, port |-> base_url.port,
         path |-> base_url.path \o path, params |-> params]

\* Oozie.jobs up to urlopen: the params dict is built first (the filter is encoded,
\* the jobtype checked), and only then is the request made
Jobs(self, filterDict, jobtype, len, offset) ==
    LET encoded == EncodeFilter(filterDict)
        checked == CheckJobtype(jobtype)
    IN  IF checked.raises # None
        THEN checked
        ELSE [raises |-> None,
              request |-> Apply(self, "jobs", [filter |-> encoded, jobtype |-> checked.value,
                                               len |-> len, offset |-> offset])]

\* the multiplier of Oozie._coordinator_runs_per_day, as the float it divides
Multiplier(timeUnit) ==
    IF timeUnit = "DAY" THEN FloatFromInt(1)
    ELSE IF timeUnit = "MINUTE" THEN FloatFromInt(24 * 60)
    ELSE IF timeUnit = "HOUR" THEN FloatFromInt(24)
    ELSE IF timeUnit = "WEEK" THEN FloatDiv(FloatFromInt(1), FloatFromInt(7))
    ELSE IF timeUnit = "MONTH" THEN FloatDiv(FloatFromInt(1), FloatFromInt(30))
    ELSE FloatFromInt(1)

\* Oozie._coordinator_runs_per_day
CoordinatorRunsPerDay(timeUnit, frequency) ==
    LET f == ParseFloat(frequency)
    IN  IF f.raises # None THEN f
        ELSE IF f.value = FloatZero THEN Raise("ZeroDivisionError", "float division by zero")
        ELSE [raises |-> None, value |-> FloatDiv(Multiplier(timeUnit), f.value)]

\* number_to_fetch of Oozie.coordinator; c.get('frequency') of a coordinator with
\* no frequency is None, and float(None) raises TypeError
NumberToFetch(days, c) ==
    IF "frequency" \notin DOMAIN c
    THEN Raise("TypeError", "float() argument must be a string or a number")
    ELSE LET runs == CoordinatorRunsPerDay(DictGet(c, "timeUnit", None), c["frequency"])
         IN  IF runs.raises # None THEN runs
             ELSE [raises |-> None,
                   value |-> FloatToInt(FloatMul(FloatFromInt(days), runs.value))]

\* str.split(sep)
RECURSIVE Split(_, _, _, _)
Split(chars, sep, word, words) ==
    IF chars = <<>> THEN Append(words, word)
    ELSE IF Head(chars) = sep THEN Split(Tail(chars), sep, <<>>, Append(words, word))
    ELSE Split(Tail(chars), sep, Append(word, Head(chars)), words)

\* faulty variant of appName: the coordinator's name instead of its path
AppNameFromJobName(c) == DictGet(c, "coordJobName", "")

\* appName of Oozie.coordinator
AppName(c) ==
    LET coordPath == DictGet(c, "coordJobPath", <<>>)
        parts     == Split(coordPath, "/", <<>>, <<>>)
    IN  Str(parts[Len(parts)])

-----------------------------------------------------------------------------
(* class ExtensibleDict: the dicts live on the heap, a reference is an index *)

\* ExtensibleDict(mapping): a new dict with the mapping's items
NewDict(h, mapping) == [heap |-> Append(h, mapping), ref |-> Len(h) + 1]

\* faulty variant of copy_with: the receiver is updated and returned
CopyWithInPlace(h, self, kwargs) ==
    [heap |-> [h EXCEPT ![self] = DictUpdate(@, kwargs)], ref |-> self]

\* ExtensibleDict.copy_with
CopyWith(h, self, kwargs) ==
    LET new_dict == NewDict(h, h[self])
    IN  [heap |-> [new_dict.heap EXCEPT ![new_dict.ref] = DictUpdate(@, kwargs)],
         ref |-> new_dict.ref]

-----------------------------------------------------------------------------
(* Exceptions *)

NoException == [type |-> None, message |-> "", code |-> 0]

ExceptionClasses ==
    {"Exception", "IOError", "ValueError", "TypeError", "ZeroDivisionError"}

\* faulty variant of the handler: a bare except, which catches SystemExit too
CatchesAll(type) == TRUE

\* "except Exception": SystemExit derives from BaseException, not from Exception
Catches(type) == type \in ExceptionClasses

\* the exception object of a call that raised
Exc(r) == [type |-> r.raises, message |-> r.message, code |-> 0]

\* "for ... in None"
NotIterable == Raise("TypeError", "'NoneType' object is not iterable")

SystemExit(code) == [type |-> "SystemExit", message |-> "", code |-> code]

-----------------------------------------------------------------------------
(* The Oozie server, as the program sees it: urlopen + json.load either    *)
(* raise or yield the JSON body.                                           *)

\* faulty variant of _apply: a failed request is answered with an empty body
UrlOpenQuiet(answer) ==
    IF answer.fails # None THEN [raises |-> None, body |-> EmptyDict]
    ELSE [raises |-> None, body |-> answer.body]

\* Oozie._apply from urlopen on
UrlOpen(answer) ==
    IF answer.fails # None THEN Raise(answer.fails, answer.message)
    ELSE [raises |-> None, body |-> answer.body]

\* urlopen cannot reach the server (IOError), json.load cannot decode (ValueError)
Fails(type) ==
    [fails |-> type,
     message |-> IF type = "IOError" THEN "[Errno socket error]"
                 ELSE "No JSON object could be decoded"]
Body(dict) == [fails |-> None, body |-> dict]

Sent(request, answer) == [request |-> request, failed |-> answer.fails # None]

WfId(n) == "0000000-oozie-W" \o Digits[n + 1]

Workflow(n, status) ==
    [id |-> WfId(n), status |-> status, startTime |-> "Mon, 04 May 2015 00:0" \o Digits[n + 1]]

\* a workflow record with no status
Statusless(n) == [id |-> WfId(n), startTime |-> "Mon, 04 May 2015 00:0" \o Digits[n + 1]]

Daily ==
    [coordJobName |-> "dashboard-coord", status |-> "RUNNING", timeUnit |-> "DAY",
     frequency |-> <<"1">>, coordJobPath |-> <<"/", "u", "/", "d", "a", "s", "h">>]

Minutely ==
    [coordJobName |-> "etl", status |-> "RUNNING", timeUnit |-> "MINUTE",
     frequency |-> <<"3", "3">>, coordJobPath |-> <<"e", "t", "l">>]

Unscheduled ==
    [coordJobName |-> "hourly", status |-> "RUNNING", timeUnit |-> "HOUR",
     frequency |-> <<"0">>, coordJobPath |-> <<"/", "h", "/">>]

CoordCatalogue(e) == IF e = "fleet" THEN {Daily, Minutely, Unscheduled} ELSE {Daily}

\* the answers to the coordinator query: up to MaxCoords different coordinators
CoordinatorLists(e) ==
    UNION {{s \in [1..n -> CoordCatalogue(e)] : \A a, b \in 1..n : s[a] = s[b] => a = b} :
           n \in 0..MaxCoords}

CoordinatorAnswers(e) ==
    {Fails("IOError"), Fails("ValueError"), Body([total |-> 0])}
        \cup {Body([total |-> Len(s), coordinatorjobs |-> List(s)]) : s \in CoordinatorLists(e)}

Statuses == OozieStatus \cup {"", "failed", "TIMEDOUT"}

\* the answers to a workflow query: a few lists in a fleet, every list of up to
\* MaxWfs workflows with or without a status otherwise
WorkflowLists(e) ==
    IF e = "fleet"
    THEN {<<>>, <<Workflow(1, "SUCCEEDED")>>,
          <<Workflow(1, "SUCCEEDED"), Workflow(2, "KILLED")>>,
          <<Workflow(1, "FAILED"), Statusless(2)>>}
    ELSE UNION {{[k \in 1..n |-> IF st[k] = None THEN Statusless(k) ELSE Workflow(k, st[k])] :
                    st \in [1..n -> Statuses \cup {None}]} : n \in 0..MaxWfs}

WorkflowAnswers(e) ==
    {Fails("IOError"), Body([total |-> 0])}
        \cup {Body([total |-> Len(s), workflows |-> List(s)]) : s \in WorkflowLists(e)}

-----------------------------------------------------------------------------
(* __main__ *)

Line(kind, fields) == [kind |-> kind, fields |-> fields]

Quoted(v) == "\"" \o (IF v = None THEN "None" ELSE v) \o "\""

NoOozie == [host |-> None, port |-> 0]

Hosts == {"oozie-a", "oozie-b"}
Ports == {DefaultPort, 8080}

Args(e) ==
    IF e = "fleet"
    THEN [host : Hosts, port : Ports, user : {None, "t4b"}, name : {None, "etl"},
          days : {3, 11}, verbose : 0..3]
    ELSE [host : {"oozie-a"}, port : {DefaultPort}, user : {None}, name : {None},
          days : {3}, verbose : 0..3]

Start(e) ==
    /\ env = e
    /\ oozie = NoOozie
    /\ heap = <<>>
    /\ filter = 0
    /\ fd = 0
    /\ cc = NoList
    /\ i = 0
    /\ j = 0
    /\ exitCode = Ok
    /\ wfStatus = None
    /\ nag = Ok
    /\ raised = NoException
    /\ problem = NoException
    /\ exitStatus = <<>>
    /\ stdout = <<>>
    /\ requests = <<>>
    /\ calls = <<>>

Init == Start("fleet") /\ args \in Args("fleet") /\ pc = "main"

InitReport == Start("single") /\ args \in Args("single") /\ pc = "main"

\* lines 184-189: the client and the filter
Main ==
    /\ pc = "main"
    /\ oozie' = OozieNew(args.host, DefaultPort)
    /\ LET withUser == IF Truthy(args.user)
                       THEN DictUpdate(EmptyDict, [user |-> args.user]) ELSE EmptyDict
           withName == IF Truthy(args.name)
                       THEN DictUpdate(withUser, [name |-> args.name]) ELSE withUser
       IN  heap' = <<withName>>
    /\ filter' = 1
    /\ pc' = "coordinator"
    /\ UNCHANGED <<env, args, fd, cc, i, j, exitCode, wfStatus, nag, raised,
                   problem, exitStatus, stdout, requests, calls>>

\* Oozie.coordinator, lines 123-126: the coordinator query
CoordinatorQuery ==
    /\ pc = "coordinator"
    /\ LET made == NewDict(heap, heap[filter])
           q    == CopyWith(made.heap, made.ref, [status |-> "RUNNING"])
           call == Jobs(oozie, q.heap[q.ref], "coordinator", DefaultLen, DefaultOffset)
       IN  /\ fd' = made.ref
           /\ heap' = q.heap
           /\ IF call.raises # None
              THEN /\ raised' = Exc(call)
                   /\ pc' = "raised"
                   /\ UNCHANGED <<requests, cc, i>>
              ELSE \E answer \in CoordinatorAnswers(env) :
                     LET coords == UrlOpen(answer)
                     IN  /\ requests' = Append(requests, Sent(call.request, answer))
                         /\ IF coords.raises # None
                            THEN /\ raised' = Exc(coords)
                                 /\ pc' = "raised"
                                 /\ UNCHANGED <<cc, i>>
                            ELSE LET got == DictGet(coords.body, "coordinatorjobs", NoList)
                                 IN  /\ cc' = got
                                     /\ IF IsList(got)
                                        THEN pc' = "fetch" /\ i' = 1 /\ UNCHANGED raised
                                        ELSE /\ raised' = Exc(NotIterable)
                                             /\ pc' = "raised"
                                             /\ UNCHANGED i
    /\ UNCHANGED <<env, args, oozie, filter, j, exitCode, wfStatus, nag, problem,
                   exitStatus, stdout, calls>>

\* Oozie.coordinator, lines 126-137: one turn of the loop, the workflow query of cc[i]
FetchWorkflows ==
    /\ pc = "fetch"
    /\ i <= Len(cc.items)
    /\ LET c == cc.items[i]
           number_to_fetch == NumberToFetch(args.days, c)
       IN  IF number_to_fetch.raises # None
           THEN /\ raised' = Exc(number_to_fetch)
                /\ pc' = "raised"
                /\ UNCHANGED <<heap, requests, cc, i>>
           ELSE LET ftr  == CopyWith(heap, fd, [name |-> AppName(c)])
                    call == Jobs(oozie, ftr.heap[ftr.ref], "wf", number_to_fetch.value,
                                 DefaultOffset)
                IN  /\ heap' = ftr.heap
                    /\ IF call.raises # None
                       THEN /\ raised' = Exc(call)
                            /\ pc' = "raised"
                            /\ UNCHANGED <<requests, cc, i>>
                       ELSE \E answer \in WorkflowAnswers(env) :
                              LET the_jobs == UrlOpen(answer)
                              IN  /\ requests' = Append(requests, Sent(call.request, answer))
                                  /\ IF the_jobs.raises # None
                                     THEN /\ raised' = Exc(the_jobs)
                                          /\ pc' = "raised"
                                          /\ UNCHANGED <<cc, i>>
                                     ELSE /\ cc' = List([cc.items EXCEPT ![i] =
                                                 DictUpdate(@, [workflows |->
                                                     DictGet(the_jobs.body, "workflows", NoList)])])
                                          /\ i' = i + 1
                                          /\ UNCHANGED <<pc, raised>>
    /\ UNCHANGED <<env, args, oozie, filter, fd, j, exitCode, wfStatus, nag, problem,
                   exitStatus, stdout, calls>>

\* line 139 and lines 190-194: coordinator returns cc, the report starts
CoordinatorReturn ==
    /\ pc = "fetch"
    /\ i > Len(cc.items)
    /\ exitCode' = Ok
    /\ i' = 1
    /\ pc' = "report"
    /\ UNCHANGED <<env, args, oozie, heap, filter, fd, cc, j, wfStatus, nag, raised,
                   problem, exitStatus, stdout, requests, calls>>

Workflows(c) == DictGet(c, "workflows", List(<<>>))

\* lines 194-199: the next coordinator; iterating over workflows that are None raises
ReportCoordinator ==
    /\ pc = "report"
    /\ i <= Len(cc.items)
    /\ IF IsList(Workflows(cc.items[i]))
       THEN pc' = "workflows" /\ j' = 1 /\ UNCHANGED raised
       ELSE pc' = "raised" /\ raised' = Exc(NotIterable) /\ UNCHANGED j
    /\ UNCHANGED <<env, args, oozie, heap, filter, fd, cc, i, exitCode, wfStatus, nag,
                   problem, exitStatus, stdout, requests, calls>>

\* lines 199-209: one workflow of cc[i]
ReportWorkflow ==
    /\ pc = "workflows"
    /\ j <= Len(Workflows(cc.items[i]).items)
    /\ LET c  == cc.items[i]
           wf == Workflows(c).items[j]
       IN  /\ wfStatus' = DictGet(wf, "status", None)
           /\ nag' = oozie_status_to_nagios(wfStatus')
           /\ stdout' =
                IF args.verbose > 2 THEN Append(stdout, Line("workflow", <<wf>>))
                ELSE IF args.verbose = 2
                THEN Append(stdout, Line("workflow",
                        <<DictGet(c, "coordJobName", None), DictGet(c, "status", None),
                          wfStatus', DictGet(wf, "id", None),
                          Quoted(DictGet(wf, "startTime", None))>>))
                ELSE stdout
           /\ exitCode' = Max2(exitCode, nag')
    /\ j' = j + 1
    /\ UNCHANGED <<env, args, oozie, heap, filter, fd, cc, i, pc, raised, problem,
                   exitStatus, requests, calls>>

\* lines 211-215: the coordinator's own line
ReportCoordinatorEnd ==
    /\ pc = "workflows"
    /\ j > Len(Workflows(cc.items[i]).items)
    /\ LET c         == cc.items[i]
           workflows == Workflows(c).items
       IN  stdout' =
             IF args.verbose = 1
             THEN Append(stdout, Line("coordinator",
                    <<DictGet(c, "coordJobName", None), Len(workflows),
                      IF workflows # <<>>
                      THEN NagiosName(MaxOf([k \in 1..Len(workflows) |->
                               oozie_status_to_nagios(DictGet(workflows[k], "status", None))]))
                      ELSE NagiosName(Unknown)>>))
             ELSE stdout
    /\ i' = i + 1
    /\ pc' = "report"
    /\ UNCHANGED <<env, args, oozie, heap, filter, fd, cc, j, exitCode, wfStatus, nag,
                   raised, problem, exitStatus, requests, calls>>

\* line 217: sys.exit(exitCode) raises SystemExit inside the try
SysExit ==
    /\ pc = "report"
    /\ i > Len(cc.items)
    /\ raised' = SystemExit(exitCode)
    /\ pc' = "raised"
    /\ UNCHANGED <<env, args, oozie, heap, filter, fd, cc, i, j, exitCode, wfStatus, nag,
                   problem, exitStatus, stdout, requests, calls>>

\* lines 219-221: print problem; sys.exit(NagiosState.Unknown), outside the try
ExceptHandler ==
    /\ pc = "raised"
    /\ Catches(raised.type)
    /\ problem' = raised
    /\ stdout' = Append(stdout, Line("problem", <<raised.message>>))
    /\ raised' = SystemExit(Unknown)
    /\ pc' = "toplevel"
    /\ UNCHANGED <<env, args, oozie, heap, filter, fd, cc, i, j, exitCode, wfStatus, nag,
                   exitStatus, requests, calls>>

\* an exception no handler catches ends the process; SystemExit gives its code
ProcessExit ==
    /\ IF pc = "raised" THEN ~Catches(raised.type) ELSE pc = "toplevel"
    /\ exitStatus' = Append(exitStatus, IF raised.type = "SystemExit" THEN raised.code ELSE 1)
    /\ pc' = "exited"
    /\ UNCHANGED <<env, args, oozie, heap, filter, fd, cc, i, j, exitCode, wfStatus, nag,
                   raised, problem, stdout, requests, calls>>

Next ==
    \/ Main
    \/ CoordinatorQuery
    \/ FetchWorkflows
    \/ CoordinatorReturn
    \/ ReportCoordinator
    \/ ReportWorkflow
    \/ ReportCoordinatorEnd
    \/ SysExit
    \/ ExceptHandler
    \/ ProcessExit

Spec == Init /\ [][Next]_vars

SpecReport == InitReport /\ [][Next]_vars

-----------------------------------------------------------------------------
(* The library called directly, as the doctests do: Oozie.jobs with any    *)
(* jobtype, ExtensibleDict.copy_with on any dict made so far.              *)

LibBases == {EmptyDict, [user |-> "t4b"], [name |-> "etl", user |-> "t4b"]}

LibKwargs ==
    {[name |-> "dash"], [name |-> "etl"], [status |-> "RUNNING"],
     [status |-> "KILLED", user |-> "hdfs"]}

LibJobTypes == JobTypes \cup {"", "workflow", "WF"}

LibAnswers == {Fails("IOError"), Body([total |-> 0])}

InitLib ==
    /\ Start("library")
    /\ args \in [host : {"oozie-a"}, port : {8080}, base : LibBases]
    /\ pc = "library"

\* ed = ExtensibleDict(base); oozie = Oozie(host, port)
LibSetUp ==
    /\ pc = "library"
    /\ heap = <<>>
    /\ heap' = NewDict(heap, args.base).heap
    /\ oozie' = OozieNew(args.host, args.port)
    /\ UNCHANGED <<env, args, filter, fd, cc, i, j, exitCode, wfStatus, nag, pc, raised,
                   problem, exitStatus, stdout, requests, calls>>

\* oozie.jobs(filter, jobtype, len)
LibJobs ==
    /\ pc = "library"
    /\ heap # <<>>
    /\ Len(calls) < MaxCalls
    /\ \E ref \in 1..Len(heap), jobtype \in LibJobTypes, len \in {0, DefaultLen} :
         LET call == Jobs(oozie, heap[ref], jobtype, len, DefaultOffset)
         IN  IF call.raises # None
             THEN /\ calls' = Append(calls,
                        [op |-> "jobs", jobtype |-> jobtype, raises |-> call.raises,
                         message |-> call.message, sent |-> <<>>])
                  /\ UNCHANGED requests
             ELSE \E answer \in LibAnswers :
                    /\ requests' = Append(requests, Sent(call.request, answer))
                    /\ calls' = Append(calls,
                          [op |-> "jobs", jobtype |-> jobtype,
                           raises |-> UrlOpen(answer).raises, message |-> "",
                           sent |-> <<Len(requests) + 1>>])
    /\ UNCHANGED <<env, args, oozie, heap, filter, fd, cc, i, j, exitCode, wfStatus, nag, pc,
                   raised, problem, exitStatus, stdout>>

\* d.copy_with(**kwargs), d the base or an earlier result
LibCopyWith ==
    /\ pc = "library"
    /\ heap # <<>>
    /\ Len(calls) < MaxCalls
    /\ \E self \in 1..Len(heap), kwargs \in LibKwargs :
         LET made == CopyWith(heap, self, kwargs)
         IN  /\ heap' = made.heap
             /\ calls' = Append(calls,
                   [op |-> "copy_with", self |-> self, was |-> heap[self],
                    kwargs |-> kwargs, result |-> made.ref])
    /\ UNCHANGED <<env, args, oozie, filter, fd, cc, i, j, exitCode, wfStatus, nag, pc,
                   raised, problem, exitStatus, stdout, requests>>

NextLib == LibSetUp \/ LibJobs \/ LibCopyWith

SpecLib == InitLib /\ [][NextLib]_vars

-----------------------------------------------------------------------------
(* What the specification says, in its own terms *)

\* the severity the specification's table gives a status
SeverityOf(status) ==
    CASE status = "FAILED" -> Error
      [] status \in {"KILLED", "SUSPENDED"} -> Warn
      [] status \in {"SUCCEEDED", "RUNNING", "PREP"} -> Ok
      [] OTHER -> Unknown

StatusOf(wf) == IF "status" \in DOMAIN wf THEN wf.status ELSE None

Greatest(S) == CHOOSE m \in S : \A x \in S : x <= m

\* reduceWorkflowSeverity of the specification
ReduceWorkflowSeverity(workflows) ==
    IF workflows = <<>> THEN Unknown
    ELSE Greatest({SeverityOf(StatusOf(workflows[k])) : k \in 1..Len(workflows)})

\* the report loop has run to its end: sys.exit(exitCode) is being raised
ReportDone == pc = "raised" /\ raised.type = "SystemExit"

\* a failure (anything but the final sys.exit) has been raised in this run
FailureRaised ==
    \/ raised.type \notin {None, "SystemExit"}
    \/ problem.type \notin {None, "SystemExit"}

ItemLines == {k \in 1..Len(stdout) : stdout[k].kind \in {"workflow", "coordinator"}}

\* the last "/"-delimited segment of a path: its longest suffix without a "/"
LastSegment(path) ==
    CHOOSE seg \in {SubSeq(path, k + 1, Len(path)) : k \in 0..Len(path)} :
        /\ \A m \in 1..Len(seg) : seg[m] # "/"
        /\ Len(seg) = Len(path) \/ path[Len(path) - Len(seg)] = "/"

PathOf(c) == IF "coordJobPath" \in DOMAIN c THEN c.coordJobPath ELSE <<>>

\* the caller's filter F, as the command line gives it, and as "k=v" pairs
CallerFilter ==
    [k \in {key \in {"user", "name"} : Truthy(args[key])} |-> args[k]]

UserPairs == IF Truthy(args.user) THEN {"user=" \o args.user} ELSE {}
NamePairs == IF Truthy(args.name) THEN {"name=" \o args.name} ELSE {}

-----------------------------------------------------------------------------
(* C1 *)

-----------------------------------------------------------------------------
(* C2 *)

\* C2: a process has one exit code, and only once it has ended. A run without a
\* failure ends with the aggregated severity, 0..3, as its exit code and prints no
\* failure; a run in which a failure was raised prints its description last and
\* ends with 3. Until it has ended the program is at a place it can go on from: a
\* loop has a list to go through, an exception is caught or ends the process.
C2_ExitCode ==
    /\ Len(exitStatus) = IF pc = "exited" THEN 1 ELSE 0
    /\ pc \in {"main", "coordinator", "fetch", "report", "workflows", "raised", "toplevel",
               "exited"}
    /\ pc \in {"fetch", "report", "workflows"} => IsList(cc) /\ i >= 1
    /\ pc = "workflows" => i <= Len(cc.items) /\ IsList(Workflows(cc.items[i])) /\ j >= 1
    /\ pc \in {"raised", "toplevel"} => raised.type # None
    /\ pc = "exited" =>
         IF FailureRaised
         THEN /\ exitStatus = <<Unknown>>
              /\ stdout # <<>>
              /\ stdout[Len(stdout)] = Line("problem", <<problem.message>>)
              /\ problem.message # ""
         ELSE /\ exitStatus = <<exitCode>>
              /\ exitCode \in {0, 1, 2, 3}
              /\ \A k \in 1..Len(stdout) : stdout[k].kind # "problem"

\* a run that had found Warn when iterating over workflows that are None failed
C2_Witness ==
    /\ pc = "exited"
    /\ problem.type = "TypeError"
    /\ exitCode = Warn
    /\ exitStatus = <<Unknown>>

-----------------------------------------------------------------------------
(* C3 *)

\* the report loop has just assessed workflow j - 1 of coordinator i
Assessed == pc = "workflows" /\ j > 1

\* C3: whatever the status of the workflow just assessed, absent and empty ones
\* included, nag is one of the four states: Error for FAILED, Warn for KILLED and
\* SUSPENDED, Ok for SUCCEEDED, RUNNING and PREP, Unknown for everything else.
C3_ToSeverityTotal ==
    Assessed =>
        /\ wfStatus = StatusOf(Workflows(cc.items[i]).items[j - 1])
        /\ nag \in NagiosState
        /\ wfStatus = "FAILED" => nag = Error
        /\ wfStatus \in {"KILLED", "SUSPENDED"} => nag = Warn
        /\ wfStatus \in {"SUCCEEDED", "RUNNING", "PREP"} => nag = Ok
        /\ wfStatus \notin {"FAILED", "KILLED", "SUSPENDED", "SUCCEEDED", "RUNNING", "PREP"}
             => nag = Unknown

\* a workflow without a status, after one that had failed
C3_Witness ==
    /\ Assessed
    /\ j = 3
    /\ wfStatus = None
    /\ nag = Unknown
    /\ exitCode = Unknown

-----------------------------------------------------------------------------
(* C4 *)

JobsCalls == {k \in 1..Len(calls) : calls[k].op = "jobs"}

\* C4: a jobs call with a jobtype other than wf, coordinator and bundle fails with
\* the unknown-jobtype error and sends nothing; a call with one of the three sends
\* exactly one request, with that jobtype; no other request is ever sent.
C4_JobTypeChecked ==
    /\ \A k \in JobsCalls :
         IF calls[k].jobtype \in {"wf", "coordinator", "bundle"}
         THEN /\ Len(calls[k].sent) = 1
              /\ calls[k].sent[1] \in 1..Len(requests)
              /\ requests[calls[k].sent[1]].request.params.jobtype = calls[k].jobtype
              /\ calls[k].raises # "Exception"
         ELSE /\ calls[k].sent = <<>>
              /\ calls[k].raises = "Exception"
              /\ calls[k].message = "unknown jobtype"
    /\ Len(requests) = Cardinality({k \in JobsCalls : calls[k].sent # <<>>})
    /\ \A k, m \in JobsCalls : k # m /\ calls[k].sent # <<>> => calls[k].sent # calls[m].sent

\* a call with jobtype "workflow", refused, then a call with jobtype "bundle", sent
C4_Witness ==
    /\ Len(calls) = 2
    /\ calls[1].op = "jobs" /\ calls[1].jobtype = "workflow" /\ calls[1].raises = "Exception"
    /\ calls[2].op = "jobs" /\ calls[2].jobtype = "bundle" /\ calls[2].sent = <<1>>
    /\ Len(requests) = 1

-----------------------------------------------------------------------------
(* C5 *)

CopyCalls == {k \in 1..Len(calls) : calls[k].op = "copy_with"}

\* the overrides written on the way from the base to the dict at ref, first to last
RECURSIVE Overrides(_)
Overrides(ref) ==
    IF ref = 1 THEN <<>>
    ELSE LET k == CHOOSE k \in CopyCalls : calls[k].result = ref
         IN  Append(Overrides(calls[k].self), calls[k].kwargs)

\* the keys written, and what was written last for a key
Written(writes) == UNION {DOMAIN writes[k] : k \in 1..Len(writes)}
LastWritten(writes, key) ==
    writes[Greatest({k \in 1..Len(writes) : key \in DOMAIN writes[k]})][key]

\* C5: copy_with returns a new dict, equal to the receiver with every override added
\* or replaced; the receiver, and so the base, keeps the contents it had, whatever
\* is called afterwards; and along a chain of copies every key has the value written
\* last for that key (the base's, if none was), whatever the order of the keys.
C5_Extend ==
    /\ heap # <<>> => heap[1] = args.base
    /\ \A k \in CopyCalls :
         /\ calls[k].result \in 1..Len(heap)
         /\ calls[k].result # calls[k].self
         /\ \A m \in CopyCalls : m # k => calls[m].result # calls[k].result
         /\ heap[calls[k].self] = calls[k].was
         /\ DOMAIN heap[calls[k].result] = DOMAIN calls[k].was \cup DOMAIN calls[k].kwargs
         /\ \A key \in DOMAIN heap[calls[k].result] :
              heap[calls[k].result][key] =
                 IF key \in DOMAIN calls[k].kwargs THEN calls[k].kwargs[key]
                 ELSE calls[k].was[key]
    /\ \A k \in CopyCalls :
         LET writes == Overrides(calls[k].result)
             made   == heap[calls[k].result]
         IN  /\ DOMAIN made = DOMAIN args.base \cup Written(writes)
             /\ \A key \in DOMAIN made :
                  made[key] = IF key \in Written(writes) THEN LastWritten(writes, key)
                              ELSE args.base[key]

\* a copy of a copy: status written twice, user once, name never
C5_Witness ==
    /\ Len(calls) = 2
    /\ args.base = [name |-> "etl", user |-> "t4b"]
    /\ calls[1].op = "copy_with" /\ calls[1].self = 1
    /\ calls[1].kwargs = [status |-> "KILLED", user |-> "hdfs"]
    /\ calls[2].op = "copy_with" /\ calls[2].self = calls[1].result
    /\ calls[2].kwargs = [status |-> "RUNNING"]
    /\ heap[calls[2].result] = [name |-> "etl", user |-> "hdfs", status |-> "RUNNING"]
    /\ heap[1] = [name |-> "etl", user |-> "t4b"]

-----------------------------------------------------------------------------
(* C6 *)

\* the specification's multiplier, as a fraction <<numerator, denominator>>
MultiplierOf(timeUnit) ==
    CASE timeUnit = "DAY" -> <<1, 1>>
      [] timeUnit = "MINUTE" -> <<1440, 1>>
      [] timeUnit = "HOUR" -> <<24, 1>>
      [] timeUnit = "WEEK" -> <<1, 7>>
      [] timeUnit = "MONTH" -> <<1, 30>>
      [] OTHER -> <<1, 1>>

\* floor(daysBack * multiplier / frequency), frequency > 0
QuotaOf(daysBack, timeUnit, frequency) ==
    (daysBack * MultiplierOf(timeUnit)[1]) \div (MultiplierOf(timeUnit)[2] * frequency)

\* the doubles 1.0, 0.5 and 4.0
One == [sign |-> 1, bits |-> <<1>> \o Zeros(MantBits - 1), exp |-> 1 - MantBits]
Half == [sign |-> 1, bits |-> <<1>> \o Zeros(MantBits - 1), exp |-> 0 - MantBits]
Four == [sign |-> 1, bits |-> <<1>> \o Zeros(MantBits - 1), exp |-> 3 - MantBits]

\* C6, as stated: the workflow query for a coordinator asks for
\* floor(daysBack * multiplier(timeUnit) / frequency) workflows; runsPerDay is 1 for
\* DAY/1, 1/2 for DAY/2 and 4 for MINUTE/360.
C6_LimitIsFloorOfQuota ==
    /\ \A k \in 2..Len(requests) :
         requests[k].request.params.len =
            QuotaOf(args.days, cc.items[k - 1].timeUnit,
                    DecimalValue(cc.items[k - 1].frequency))
    /\ CoordinatorRunsPerDay("DAY", <<"1">>).value = One
    /\ CoordinatorRunsPerDay("DAY", <<"2">>).value = Half
    /\ CoordinatorRunsPerDay("MINUTE", <<"3", "6", "0">>).value = Four

-----------------------------------------------------------------------------
(* C7 *)

\* C7, as stated: every request goes to the host and the port of the command line
\* (--port, 11000 when it is not given).
C7_RequestsToConfiguredPort ==
    \A k \in 1..Len(requests) :
        /\ requests[k].request.host = args.host
        /\ requests[k].request.port = args.port

-----------------------------------------------------------------------------
(* C8 *)

\* C8, as stated: a run that ends through the failure handler has printed no
\* workflow line and no coordinator line.
C8_NoPartialResults ==
    pc = "exited" /\ FailureRaised => ItemLines = {}

-----------------------------------------------------------------------------
(* C9 *)

-----------------------------------------------------------------------------
(* C10 *)

\* C10: the coordinator query carries F and status=RUNNING; the workflow query for
\* a coordinator carries F with name set to the last segment of its coordJobPath,
\* and nothing else (no status, no other coordinator's name, whatever coordJobName
\* is); and the caller's F stays what the command line made it.
C10_Filters ==
    /\ \A k \in 1..Len(requests) :
         requests[k].request.params.filter =
            IF k = 1 THEN UserPairs \cup NamePairs \cup {"status=RUNNING"}
            ELSE UserPairs \cup {"name=" \o Str(LastSegment(PathOf(cc.items[k - 1])))}
    /\ pc # "main" => heap[filter] = CallerFilter

\* --user t4b --name etl, and the workflow query for the coordinator named
\* dashboard-coord at /u/dash asked for name=dash
C10_Witness ==
    /\ pc = "report"
    /\ args.user = "t4b" /\ args.name = "etl"
    /\ Len(requests) = 3
    /\ cc.items[2].coordJobName = "dashboard-coord"
    /\ requests[3].request.params.filter = {"user=t4b", "name=dash"}
    /\ requests[2].request.params.filter = {"user=t4b", "name=etl"}
    /\ heap[filter] = [name |-> "etl", user |-> "t4b"]

====
